---------------------------- MODULE Spec2Model ----------------------------
(***************************************************************************)
(* A model of autosuspend's decision engine                                *)
(* (src/src/autosuspend/__init__.py): the two aggregation functions        *)
(* execute_checks and execute_wakeups, Processor.iteration with its single *)
(* piece of state _idle_since, and the polling driver loop() with the      *)
(* "just woke up" marker file.                                             *)
(*                                                                         *)
(* Instants and durations are integers (seconds).  An Optional value is a  *)
(* sequence of length at most one: None is <<>>, Some(x) is <<x>>.         *)
(***************************************************************************)
EXTENDS Integers, Sequences, FiniteSets, TLC

VARIABLES
    idle_since,      \* Processor._idle_since: None or Some(instant)
    idle_time,       \* Processor._idle_time
    min_sleep_time,  \* Processor._min_sleep_time
    wakeup_delta,    \* Processor._wakeup_delta
    all_activities,  \* Processor._all_activities
    notify_cmd_wakeup,     \* main(): TRUE iff notify_cmd_wakeup is configured
    notify_cmd_no_wakeup,  \* main(): TRUE iff notify_cmd_no_wakeup is configured
    interval,        \* loop(): interval
    run_for,         \* loop(): run_for, None or Some(seconds)
    start_time,      \* loop(): start_time
    now,             \* the clock read by datetime.datetime.now
    woke_up_file,    \* TRUE iff the marker file woke_up_file exists
    pc,              \* position of loop(): "while" or "done"
    tick,            \* what the most recent Processor.iteration read and did
    last_suspend,    \* instant of the most recent sleep_fn call, or None
    quiet_since      \* instant of the first tick of the current run of ticks
                     \* without just_woke_up, activity or suspend, or None

configVars == <<idle_time, min_sleep_time, wakeup_delta, all_activities,
                notify_cmd_wakeup, notify_cmd_no_wakeup,
                interval, run_for, start_time>>

vars == <<idle_since, idle_time, min_sleep_time, wakeup_delta, all_activities,
          notify_cmd_wakeup, notify_cmd_no_wakeup, interval, run_for, start_time, now, woke_up_file, pc, tick,
          last_suspend, quiet_since>>

----------------------------------------------------------------------------
(* Bounds of the model.                                                    *)

\* a wake probe returns an instant at most this far after the query instant
MaxWakeAhead == 3
\* the clock stops being advanced beyond this instant
MaxTime == 4
\* largest configured idle_time
MaxIdleTime == 1
\* largest configured min_sleep_time
MaxMinSleep == 2
\* largest configured wakeup_delta
MaxDelta == 2
\* largest configured poll interval
MaxInterval == 2
\* most probes handed to execute_checks or execute_wakeups on their own
MaxProbes == 3
\* latest instant used when execute_wakeups is run on its own
MaxInstant == 3
\* the end-to-end scenario: idle_time, the number of leading ticks whose
\* probe reports activity, and the last instant at which a tick starts
ScenarioIdleTime == 10
ScenarioActiveTicks == 10
ScenarioMaxTime == 40
\* largest run_for of the bounded run mode
MaxRunFor == 3
\* the clock is not advanced beyond this instant when a tick runs up to
\* MaxProbes activity probes
MaxProbeTime == 1

----------------------------------------------------------------------------
(* Optional values.                                                        *)

None == <<>>

Some(x) == <<x>>

\* the value inside a Some
Get(o) == o[1]

----------------------------------------------------------------------------
(* Probe results.  An activity probe (Activity.check) returns a reason,    *)
(* returns None or raises TemporaryCheckError.  A wake probe               *)
(* (Wakeup.check) returns an instant, returns None or raises               *)
(* TemporaryCheckError.                                                    *)

CheckResults == {"reason", "none", "error"}

Raise == [raises |-> TRUE, value |-> None]

Return(v) == [raises |-> FALSE, value |-> v]

\* what one wake probe may answer when queried at instant t
WakeupResults(t) ==
    {Raise, Return(None)} \cup {Return(Some(t + d)) : d \in 0..MaxWakeAhead}

----------------------------------------------------------------------------
(* execute_checks, lines 113-142.                                          *)

\* line 133: result is not None
check_matched(result) == result # "none"

\* check_step with TemporaryCheckError leaving the loop
check_step_error_aborts(st, i, result, all_checks) ==
    IF result = "error"
    THEN [st EXCEPT !.invoked = Append(@, i), !.stopped = TRUE]
    ELSE IF check_matched(result)
         THEN [matched |-> TRUE,
               invoked |-> Append(st.invoked, i),
               stopped |-> ~all_checks]
         ELSE [st EXCEPT !.invoked = Append(@, i)]

\* check_step without the break of lines 139-140
check_step_never_breaks(st, i, result, all_checks) ==
    IF result = "error"
    THEN [st EXCEPT !.invoked = Append(@, i)]
    ELSE IF check_matched(result)
         THEN [matched |-> TRUE,
               invoked |-> Append(st.invoked, i),
               stopped |-> FALSE]
         ELSE [st EXCEPT !.invoked = Append(@, i)]

\* check_step with TemporaryCheckError counted as activity
check_step_error_is_activity(st, i, result, all_checks) ==
    IF result = "error" \/ check_matched(result)
    THEN [matched |-> TRUE,
          invoked |-> Append(st.invoked, i),
          stopped |-> ~all_checks]
    ELSE [st EXCEPT !.invoked = Append(@, i)]

\* lines 131-141: the try block around one probe.  st is the loop's state:
\* matched, the indices of the probes invoked so far, and whether the loop
\* was left by break.
check_step(st, i, result, all_checks) ==
    IF result = "error"
    THEN [st EXCEPT !.invoked = Append(@, i)]
    ELSE IF check_matched(result)
         THEN [matched |-> TRUE,
               invoked |-> Append(st.invoked, i),
               stopped |-> ~all_checks]
         ELSE [st EXCEPT !.invoked = Append(@, i)]

RECURSIVE checks_loop(_, _, _, _)
\* lines 129-141: for check in checks, from the i-th probe on
checks_loop(checks, all_checks, i, st) ==
    IF i > Len(checks) \/ st.stopped
    THEN st
    ELSE checks_loop(checks, all_checks, i + 1,
                     check_step(st, i, checks[i], all_checks))

\* execute_checks(checks, all_checks, logger): .matched is the value
\* returned, .invoked the probes whose check() was called, in order
execute_checks(checks, all_checks) ==
    checks_loop(checks, all_checks, 1,
                [matched |-> FALSE, invoked |-> <<>>, stopped |-> FALSE])

----------------------------------------------------------------------------
(* execute_wakeups, lines 145-172.                                         *)

\* wakeup_usable with < in place of <=
wakeup_usable_strict(this_at, timestamp) ==
    /\ this_at # None
    /\ ~(Get(this_at) < timestamp)

\* lines 155-162: the sanity checks; TRUE when this_at is used
wakeup_usable(this_at, timestamp) ==
    /\ this_at # None
    /\ ~(Get(this_at) <= timestamp)

\* line 167: min(this_at, wakeup_at)
min(a, b) == IF a <= b THEN a ELSE b

\* lines 151-170: the try block around one probe
wakeup_step(wakeup_at, result, timestamp) ==
    IF result.raises
    THEN wakeup_at
    ELSE IF ~wakeup_usable(result.value, timestamp)
         THEN wakeup_at
         ELSE IF wakeup_at = None
              THEN result.value
              ELSE Some(min(Get(result.value), Get(wakeup_at)))

RECURSIVE wakeups_loop(_, _, _, _)
\* lines 150-170: for wakeup in wakeups, from the i-th probe on
wakeups_loop(wakeups, timestamp, i, wakeup_at) ==
    IF i > Len(wakeups)
    THEN wakeup_at
    ELSE wakeups_loop(wakeups, timestamp, i + 1,
                      wakeup_step(wakeup_at, wakeups[i], timestamp))

\* execute_wakeups(wakeups, timestamp, logger)
execute_wakeups(wakeups, timestamp) ==
    wakeups_loop(wakeups, timestamp, 1, None)

----------------------------------------------------------------------------
(* Processor, lines 175-284.                                               *)

\* the value of tick before the first iteration
NoTick ==
    [ran |-> FALSE, timestamp |-> 0, just_woke_up |-> FALSE,
     checks |-> <<>>, wakeups |-> <<>>, idle_before |-> None,
     active |-> FALSE, invoked |-> <<>>, wakeup_raw |-> None,
     wakeup_at |-> None, calls |-> <<>>, commands |-> <<>>,
     prev_suspend |-> None]

\* apply_delta with the delta added instead of subtracted
apply_delta_added(wakeup_at) ==
    IF wakeup_at # None THEN Some(Get(wakeup_at) + wakeup_delta) ELSE None

\* lines 240-241: wakeup_at -= timedelta(seconds=self._wakeup_delta)
apply_delta(wakeup_at) ==
    IF wakeup_at # None THEN Some(Get(wakeup_at) - wakeup_delta) ELSE None

\* idle_long_enough with >= in place of >
idle_long_enough_inclusive(timestamp, since) == timestamp - since >= idle_time

\* line 262: (timestamp - self._idle_since).total_seconds() > self._idle_time
idle_long_enough(timestamp, since) == timestamp - since > idle_time

\* below_min_sleep with <= in place of <
below_min_sleep_inclusive(wakeup_at, timestamp) ==
    Get(wakeup_at) - timestamp <= min_sleep_time

\* below_min_sleep on the instant before wakeup_delta was subtracted
below_min_sleep_before_delta(wakeup_at, timestamp) ==
    Get(wakeup_at) + wakeup_delta - timestamp < min_sleep_time

\* lines 267-268: wakeup_in.total_seconds() < self._min_sleep_time
below_min_sleep(wakeup_at, timestamp) ==
    Get(wakeup_at) - timestamp < min_sleep_time

\* lines 224-226: _reset_state
reset_state == None

\* set_idle without the test for None: every idle tick restarts the count
set_idle_always(since, timestamp) == Some(timestamp)

\* lines 254-255: set idle timestamp if required
set_idle(since, timestamp) == IF since = None THEN Some(timestamp) ELSE since

\* lines 276-278: schedule wakeup, when wakeup_at is not None
wakeup_calls(wakeup_at) ==
    IF wakeup_at # None
    THEN <<[fn |-> "wakeup_fn", at |-> wakeup_at]>>
    ELSE <<>>

\* suspend_if_idle resetting the state when the minimum sleep time blocks
\* the suspend
suspend_if_idle_resets_when_blocked(since, timestamp, wakeup_at) ==
    LET idle == set_idle(since, timestamp) IN
    IF idle_long_enough(timestamp, Get(idle))
    THEN IF wakeup_at # None /\ below_min_sleep(wakeup_at, timestamp)
         THEN [idle_since |-> reset_state, calls |-> <<>>]
         ELSE [idle_since |-> reset_state,
               calls |-> wakeup_calls(wakeup_at)
                         \o <<[fn |-> "sleep_fn", at |-> wakeup_at]>>]
    ELSE [idle_since |-> idle, calls |-> <<>>]

\* suspend_if_idle without _reset_state('Going to suspend')
suspend_if_idle_keeps_idle_on_suspend(since, timestamp, wakeup_at) ==
    LET idle == set_idle(since, timestamp) IN
    IF idle_long_enough(timestamp, Get(idle))
    THEN IF wakeup_at # None /\ below_min_sleep(wakeup_at, timestamp)
         THEN [idle_since |-> idle, calls |-> <<>>]
         ELSE [idle_since |-> idle,
               calls |-> wakeup_calls(wakeup_at)
                         \o <<[fn |-> "sleep_fn", at |-> wakeup_at]>>]
    ELSE [idle_since |-> idle, calls |-> <<>>]

\* lines 253-284: the part of iteration after the two early returns; since
\* is self._idle_since on entry.  The result is the new self._idle_since and
\* the calls of wakeup_fn and sleep_fn made, in order.
suspend_if_idle(since, timestamp, wakeup_at) ==
    LET idle == set_idle(since, timestamp) IN
    IF idle_long_enough(timestamp, Get(idle))
    THEN IF wakeup_at # None /\ below_min_sleep(wakeup_at, timestamp)
         THEN [idle_since |-> idle, calls |-> <<>>]
         ELSE [idle_since |-> reset_state,
               calls |-> wakeup_calls(wakeup_at)
                         \o <<[fn |-> "sleep_fn", at |-> wakeup_at]>>]
    ELSE [idle_since |-> idle, calls |-> <<>>]

\* prevents_suspension without the test of active
prevents_suspension_ignores_active(just_woke_up, active) == just_woke_up

\* prevents_suspension without the test of just_woke_up
prevents_suspension_ignores_woke_up(just_woke_up, active) == active

\* lines 245-251: exit in case something prevents suspension
prevents_suspension(just_woke_up, active) == just_woke_up \/ active

\* lines 244-284: what iteration does once the probes have answered active
\* and (after the delta) wakeup_at
decide(since, timestamp, just_woke_up, active, wakeup_at) ==
    IF prevents_suspension(just_woke_up, active)
    THEN [idle_since |-> reset_state, calls |-> <<>>]
    ELSE suspend_if_idle(since, timestamp, wakeup_at)

\* Processor.iteration(timestamp, just_woke_up), lines 228-284, with the
\* probes answering checks and wakeups on this tick.  since is
\* self._idle_since on entry.
iteration(since, timestamp, just_woke_up, checks, wakeups) ==
    LET ran       == execute_checks(checks, all_activities)
        active    == ran.matched
        wakeup_raw == execute_wakeups(wakeups, timestamp)
        wakeup_at == apply_delta(wakeup_raw)
        out       == decide(since, timestamp, just_woke_up, active,
                            wakeup_at)
    IN  [ran |-> TRUE, timestamp |-> timestamp,
         just_woke_up |-> just_woke_up,
         checks |-> checks, wakeups |-> wakeups, idle_before |-> since,
         active |-> active, invoked |-> ran.invoked,
         wakeup_raw |-> wakeup_raw, wakeup_at |-> wakeup_at,
         idle_since |-> out.idle_since,
         calls |-> out.calls]

\* TRUE iff sleep_fn was called on the tick t
Suspended(t) == \E i \in 1..Len(t.calls) : t.calls[i].fn = "sleep_fn"

----------------------------------------------------------------------------
(* The external commands, lines 36-110, as main() binds them to sleep_fn   *)
(* and wakeup_fn (lines 526-534).  failing is the set of the commands that *)
(* exit with a non-zero status on this tick.  A command that ran is        *)
(* recorded with the instant substituted into it (None when it takes       *)
(* none) and with whether it failed.                                       *)

\* subprocess.check_call(command, shell=True) inside try / except
\* CalledProcessError (lines 47-51, 77-81, 106-110): the failure is logged
ran_command(cmd, at, failing) ==
    <<[cmd |-> cmd, at |-> at, failed |-> cmd \in failing]>>

\* schedule_wakeup(command_template, wakeup_at), lines 102-110
schedule_wakeup(wakeup_at, failing) ==
    ran_command("wakeup_cmd", wakeup_at, failing)

\* notify_suspend with the second branch not testing wakeup_at
notify_suspend_any_no_wakeup(wakeup_at, failing) ==
    IF wakeup_at # None /\ notify_cmd_wakeup
    THEN ran_command("notify_cmd_wakeup", wakeup_at, failing)
    ELSE IF notify_cmd_no_wakeup
         THEN ran_command("notify_cmd_no_wakeup", None, failing)
         ELSE <<>>

\* notify_suspend(command_wakeup_template, command_no_wakeup, wakeup_at),
\* lines 54-91
notify_suspend(wakeup_at, failing) ==
    IF wakeup_at # None /\ notify_cmd_wakeup
    THEN ran_command("notify_cmd_wakeup", wakeup_at, failing)
    ELSE IF wakeup_at = None /\ notify_cmd_no_wakeup
         THEN ran_command("notify_cmd_no_wakeup", None, failing)
         ELSE <<>>

\* execute_suspend(command, wakeup_at), lines 36-51; wakeup_at is only
\* informative
execute_suspend(wakeup_at, failing) ==
    ran_command("suspend_cmd", None, failing)

\* notify_and_suspend suspending before it notifies
notify_and_suspend_suspends_first(wakeup_at, failing) ==
    execute_suspend(wakeup_at, failing) \o notify_suspend(wakeup_at, failing)

\* notify_and_suspend(suspend_cmd, notify_cmd_wakeup_template,
\* notify_cmd_no_wakeup, wakeup_at), lines 94-99
notify_and_suspend(wakeup_at, failing) ==
    notify_suspend(wakeup_at, failing) \o execute_suspend(wakeup_at, failing)

\* lines 278 and 281 with the callables of lines 526-534
call_commands(call, failing) ==
    IF call.fn = "wakeup_fn"
    THEN schedule_wakeup(call.at, failing)
    ELSE notify_and_suspend(call.at, failing)

RECURSIVE all_commands(_, _)
\* the commands of the calls of one tick, in order
all_commands(calls, failing) ==
    IF calls = <<>>
    THEN <<>>
    ELSE call_commands(Head(calls), failing)
             \o all_commands(Tail(calls), failing)

RECURSIVE until_failure(_)
\* the prefix of cmds that ends with its first failed command
until_failure(cmds) ==
    IF cmds = <<>>
    THEN <<>>
    ELSE IF Head(cmds).failed
         THEN <<Head(cmds)>>
         ELSE <<Head(cmds)>> \o until_failure(Tail(cmds))

\* dispatch with CalledProcessError not caught: the first failure ends
\* the tick's commands
dispatch_stops_at_failure(calls, failing) ==
    until_failure(all_commands(calls, failing))

\* the commands one tick runs for its calls: every failure is caught where
\* it occurs, so each command runs whatever the others did
dispatch(calls, failing) == all_commands(calls, failing)

\* the names of the commands the calls run
CommandNames(calls) ==
    LET cmds == all_commands(calls, {}) IN
    {cmds[i].cmd : i \in 1..Len(cmds)}

----------------------------------------------------------------------------
(* loop(), lines 287-320.                                                  *)

\* the while condition with <= in place of <
loop_continues_inclusive ==
    IF run_for = None THEN TRUE ELSE now <= start_time + Get(run_for)

\* lines 309-311: the while condition
loop_continues ==
    IF run_for = None THEN TRUE ELSE now < start_time + Get(run_for)

\* consume_marker leaving the file in place
consume_marker_keeps(present) == present

\* lines 314-315: os.remove(woke_up_file) when it exists; the result is
\* whether the file exists afterwards
consume_marker(present) == IF present THEN FALSE ELSE present

\* lines 313-320: one pass through the body of the while loop, with the
\* probes answering checks and wakeups and the commands in failing exiting
\* with a non-zero status; the clock advances in time.sleep(interval) only
LoopBody(checks, wakeups, failing) ==
    /\ pc = "while"
    /\ loop_continues
    /\ LET just_woke_up == woke_up_file
           t == iteration(idle_since, now, just_woke_up, checks, wakeups)
       IN  /\ woke_up_file' = consume_marker(woke_up_file)
           /\ idle_since' = t.idle_since
           /\ tick' = [x \in DOMAIN NoTick |->
                          IF x = "commands" THEN dispatch(t.calls, failing)
                          ELSE IF x = "prev_suspend" THEN last_suspend
                          ELSE t[x]]
           /\ last_suspend' = IF Suspended(t) THEN Some(now) ELSE last_suspend
           /\ quiet_since' =
                  IF just_woke_up \/ t.active \/ Suspended(t)
                  THEN None
                  ELSE IF quiet_since = None THEN Some(now) ELSE quiet_since
    /\ now' = now + interval
    /\ UNCHANGED <<configVars, pc>>

\* one pass of the loop for any exit statuses of the commands it runs
LoopPass(checks, wakeups) ==
    \E failing \in SUBSET CommandNames(
                       iteration(idle_since, now, woke_up_file,
                                 checks, wakeups).calls) :
        LoopBody(checks, wakeups, failing)

\* one pass of the loop of a Processor with one activity probe and one wake
\* probe, for any answers of the two
LoopIteration ==
    /\ now <= MaxTime
    /\ \E check \in CheckResults :
       \E wakeup \in WakeupResults(now) :
           LoopPass(<<check>>, <<wakeup>>)

\* lines 309-311: the while condition is false, loop() returns
LoopExit ==
    /\ pc = "while"
    /\ ~loop_continues
    /\ pc' = "done"
    /\ UNCHANGED <<configVars, idle_since, now, woke_up_file, tick,
                   last_suspend, quiet_since>>

\* the resume hook of the system creates the marker file
ResumeHook ==
    /\ pc = "while"
    /\ ~woke_up_file
    /\ woke_up_file' = TRUE
    /\ UNCHANGED <<configVars, idle_since, now, pc, tick, last_suspend,
                   quiet_since>>

\* Processor.__init__ (lines 204-222) and the start of loop() (line 308)
Init ==
    /\ idle_since = None
    /\ idle_time \in 0..MaxIdleTime
    /\ min_sleep_time \in {0, MaxMinSleep}
    /\ wakeup_delta \in {0, MaxDelta}
    /\ all_activities = FALSE
    /\ notify_cmd_wakeup = FALSE
    /\ notify_cmd_no_wakeup = FALSE
    /\ interval \in {1, MaxInterval}
    /\ run_for = None
    /\ start_time = 0
    /\ now = 0
    /\ woke_up_file = FALSE
    /\ pc = "while"
    /\ tick = NoTick
    /\ last_suspend = None
    /\ quiet_since = None

Next == LoopIteration \/ ResumeHook

\* the daemon: loop() without run_for around a Processor with one probe of
\* each kind (longer sequences of probes: SpecChecks and SpecWakeups below)
\* and no notification command
Spec == Init /\ [][Next]_vars

\* the daemon with a fixed Processor and every configuration of the two
\* notification commands
InitDispatch ==
    /\ idle_since = None
    /\ idle_time = 0
    /\ min_sleep_time = 0
    /\ wakeup_delta = 0
    /\ all_activities = FALSE
    /\ notify_cmd_wakeup \in BOOLEAN
    /\ notify_cmd_no_wakeup \in BOOLEAN
    /\ interval = 1
    /\ run_for = None
    /\ start_time = 0
    /\ now = 0
    /\ woke_up_file = FALSE
    /\ pc = "while"
    /\ tick = NoTick
    /\ last_suspend = None
    /\ quiet_since = None

SpecDispatch == InitDispatch /\ [][Next]_vars

----------------------------------------------------------------------------
(* The aggregation functions on their own: execute_checks and              *)
(* execute_wakeups called once on any sequence of at most MaxProbes probe  *)
(* answers.  tick holds the arguments and, once the call has returned      *)
(* (tick.ran), the result.                                                 *)

\* everything but tick, all_activities and now at rest
AtRest ==
    /\ idle_since = None
    /\ idle_time = 0
    /\ min_sleep_time = 0
    /\ wakeup_delta = 0
    /\ notify_cmd_wakeup = FALSE
    /\ notify_cmd_no_wakeup = FALSE
    /\ interval = 1
    /\ run_for = None
    /\ start_time = 0
    /\ woke_up_file = FALSE
    /\ pc = "while"
    /\ last_suspend = None
    /\ quiet_since = None

\* the sequences of at most MaxProbes elements of S
SeqsUpTo(S) == UNION {[1..n -> S] : n \in 0..MaxProbes}

InitChecks ==
    /\ AtRest
    /\ now = 0
    /\ all_activities \in BOOLEAN
    /\ tick \in {[NoTick EXCEPT !.checks = c] : c \in SeqsUpTo(CheckResults)}

\* one call of execute_checks(checks, all_checks, logger)
ExecuteChecks ==
    /\ ~tick.ran
    /\ LET r == execute_checks(tick.checks, all_activities) IN
           tick' = [tick EXCEPT !.ran = TRUE,
                                !.active = r.matched,
                                !.invoked = r.invoked]
    /\ UNCHANGED <<configVars, idle_since, now, woke_up_file, pc,
                   last_suspend, quiet_since>>

NextChecks == ExecuteChecks

SpecChecks == InitChecks /\ [][NextChecks]_vars

\* what one wake probe may answer: an instant up to MaxInstant, None or
\* TemporaryCheckError
InstantResults ==
    {Raise, Return(None)} \cup {Return(Some(i)) : i \in 0..MaxInstant}

InitWakeups ==
    /\ AtRest
    /\ now \in 0..MaxInstant
    /\ all_activities = FALSE
    /\ tick \in {[NoTick EXCEPT !.wakeups = w, !.timestamp = now] :
                    w \in SeqsUpTo(InstantResults)}

\* one call of execute_wakeups(wakeups, timestamp, logger)
ExecuteWakeups ==
    /\ ~tick.ran
    /\ tick' = [tick EXCEPT
                   !.ran = TRUE,
                   !.wakeup_raw = execute_wakeups(tick.wakeups,
                                                  tick.timestamp)]
    /\ UNCHANGED <<configVars, idle_since, now, woke_up_file, pc,
                   last_suspend, quiet_since>>

NextWakeups == ExecuteWakeups

SpecWakeups == InitWakeups /\ [][NextWakeups]_vars

----------------------------------------------------------------------------
(* The end-to-end scenario: idle_time = ScenarioIdleTime, min_sleep_time   *)
(* = 0, no wake probes, interval 1, the marker file never created, one     *)
(* activity probe that reports activity at the ticks before                *)
(* ScenarioActiveTicks and none from then on.  Tick k runs at instant k.   *)

\* the answer of the scenario's activity probe at instant t
scenario_check(t) == IF t < ScenarioActiveTicks THEN "reason" ELSE "none"

InitScenario ==
    /\ idle_since = None
    /\ idle_time = ScenarioIdleTime
    /\ min_sleep_time = 0
    /\ wakeup_delta \in {0, MaxDelta}
    /\ all_activities \in BOOLEAN
    /\ notify_cmd_wakeup = FALSE
    /\ notify_cmd_no_wakeup = FALSE
    /\ interval = 1
    /\ run_for = None
    /\ start_time = 0
    /\ now = 0
    /\ woke_up_file = FALSE
    /\ pc = "while"
    /\ tick = NoTick
    /\ last_suspend = None
    /\ quiet_since = None

\* one pass of the loop in the scenario
ScenarioTick ==
    /\ now <= ScenarioMaxTime
    /\ LoopPass(<<scenario_check(now)>>, <<>>)

NextScenario == ScenarioTick

SpecScenario == InitScenario /\ [][NextScenario]_vars

----------------------------------------------------------------------------
(* loop() with and without run_for.  The loop is a sequential program: a   *)
(* pass that can start does start, and the loop returns once its           *)
(* condition is false.                                                     *)

InitBounded ==
    /\ idle_since = None
    /\ idle_time = 0
    /\ min_sleep_time = 0
    /\ wakeup_delta = 0
    /\ all_activities = FALSE
    /\ notify_cmd_wakeup = FALSE
    /\ notify_cmd_no_wakeup = FALSE
    /\ interval \in {1, MaxInterval}
    /\ run_for \in {None} \cup {Some(r) : r \in 0..MaxRunFor}
    /\ start_time = 0
    /\ now = 0
    /\ woke_up_file = FALSE
    /\ pc = "while"
    /\ tick = NoTick
    /\ last_suspend = None
    /\ quiet_since = None

NextBounded == LoopIteration \/ LoopExit \/ ResumeHook

SpecBounded ==
    /\ InitBounded
    /\ [][NextBounded]_vars
    /\ WF_vars(LoopIteration)
    /\ WF_vars(LoopExit)

----------------------------------------------------------------------------
(* loop() in unbounded mode, every pass of the loop completing: a pass     *)
(* that can start does start.  The resume hook runs when the system        *)
(* resumes, which nothing forces.                                          *)

InitLive ==
    /\ idle_since = None
    /\ idle_time = MaxIdleTime
    /\ min_sleep_time = MaxMinSleep
    /\ wakeup_delta = 0
    /\ all_activities = FALSE
    /\ notify_cmd_wakeup = FALSE
    /\ notify_cmd_no_wakeup = FALSE
    /\ interval \in {1, MaxInterval}
    /\ run_for = None
    /\ start_time = 0
    /\ now = 0
    /\ woke_up_file = FALSE
    /\ pc = "while"
    /\ tick = NoTick
    /\ last_suspend = None
    /\ quiet_since = None

NextLive == LoopIteration \/ ResumeHook

SpecLive ==
    /\ InitLive
    /\ [][NextLive]_vars
    /\ WF_vars(LoopIteration)

----------------------------------------------------------------------------
(* A Processor with up to MaxProbes activity probes and no wake probe,     *)
(* with all_activities set or not.                                         *)

InitProbes ==
    /\ idle_since = None
    /\ idle_time = 0
    /\ min_sleep_time = 0
    /\ wakeup_delta = 0
    /\ all_activities \in BOOLEAN
    /\ notify_cmd_wakeup = FALSE
    /\ notify_cmd_no_wakeup = FALSE
    /\ interval = 1
    /\ run_for = None
    /\ start_time = 0
    /\ now = 0
    /\ woke_up_file = FALSE
    /\ pc = "while"
    /\ tick = NoTick
    /\ last_suspend = None
    /\ quiet_since = None

\* one pass of the loop, for any answers of the activity probes
ProbesIteration ==
    /\ now <= MaxProbeTime
    /\ \E checks \in SeqsUpTo(CheckResults) : LoopPass(checks, <<>>)

NextProbes == ProbesIteration \/ ResumeHook

SpecProbes == InitProbes /\ [][NextProbes]_vars

----------------------------------------------------------------------------
(* Vocabulary of the properties, defined on what a tick read (the probes'  *)
(* answers, the flag, the prior _idle_since) and not on what the code      *)
(* computed from it.                                                       *)

\* at least one activity probe answered with a reason
ReportsActive(t) == \E i \in 1..Len(t.checks) : t.checks[i] = "reason"

\* a tick that ran with just_woke_up = FALSE and no activity
Quiet(t) == t.ran /\ ~t.just_woke_up /\ ~ReportsActive(t)

\* _idle_since after the Active-to-Idle transition of the tick
IdleAnchor(t) ==
    IF t.idle_before = None THEN t.timestamp ELSE Get(t.idle_before)

\* the elapsed idle time of the tick
Elapsed(t) == t.timestamp - IdleAnchor(t)

\* the instants returned by wake probes that are strictly after instant at
ValidInstants(wakeups, at) ==
    {Get(wakeups[i].value) :
        i \in {j \in 1..Len(wakeups) :
                  /\ ~wakeups[j].raises
                  /\ wakeups[j].value # None
                  /\ Get(wakeups[j].value) > at}}

\* the smallest of them, or None
EarliestValid(wakeups, at) ==
    LET V == ValidInstants(wakeups, at) IN
    IF V = {} THEN None ELSE Some(CHOOSE m \in V : \A v \in V : m <= v)

\* the delta-adjusted wake-up instant of the tick, or None
AdjustedWakeup(t) ==
    LET e == EarliestValid(t.wakeups, t.timestamp) IN
    IF e = None THEN None ELSE Some(Get(e) - wakeup_delta)

\* the adjusted wake-up instant exists and is closer than min_sleep_time
TooClose(t) ==
    /\ AdjustedWakeup(t) # None
    /\ Get(AdjustedWakeup(t)) - t.timestamp < min_sleep_time

\* how many times the tick called fn
CallCount(t, fn) == Cardinality({i \in 1..Len(t.calls) : t.calls[i].fn = fn})

\* the tick dispatched nothing
NoCalls(t) == t.calls = <<>>

----------------------------------------------------------------------------
(* C1: a tick whose activity probes report activity dispatches no suspend, *)
(* notify or wake-scheduling action and leaves _idle_since = None,         *)
(* whatever the prior _idle_since, the elapsed idle time and the wake      *)
(* probes' answers.                                                        *)
C1_ActiveTickResets ==
    (tick.ran /\ ReportsActive(tick)) =>
        (NoCalls(tick) /\ idle_since = None)

\* an active tick (no just_woke_up) that found the system idle for longer
\* than idle_time, with a usable wake-up instant
C1_Witness ==
    /\ tick.ran /\ ReportsActive(tick) /\ ~tick.just_woke_up
    /\ tick.idle_before # None
    /\ Elapsed(tick) > idle_time
    /\ AdjustedWakeup(tick) # None /\ ~TooClose(tick)

(* C2: a tick with just_woke_up = TRUE leaves _idle_since = None and       *)
(* dispatches nothing, for every prior state and all probe answers; a      *)
(* second such tick right after it leaves the state as the first left it.  *)
C2_JustWokeUpResets ==
    [][(now' # now /\ tick'.just_woke_up) =>
          /\ idle_since' = None
          /\ NoCalls(tick')
          /\ (tick.ran /\ tick.just_woke_up) =>
                 (idle_since' = idle_since /\ quiet_since' = quiet_since
                  /\ last_suspend' = last_suspend)]_vars

\* a just_woke_up tick that would have suspended otherwise: no activity,
\* idle for longer than idle_time, no wake-up instant
C2_Witness ==
    /\ tick.ran /\ tick.just_woke_up /\ ~ReportsActive(tick)
    /\ tick.idle_before # None
    /\ Elapsed(tick) > idle_time
    /\ AdjustedWakeup(tick) = None
    /\ idle_since = None

(* C3: a suspend is dispatched only on a tick whose elapsed idle time is   *)
(* strictly greater than idle_time; a quiet tick with elapsed <= idle_time *)
(* dispatches nothing and keeps _idle_since; the tick that first sets      *)
(* _idle_since never suspends (idle_time >= 0).                            *)
C3_StrictIdleTime ==
    /\ Suspended(tick) => (Quiet(tick) /\ Elapsed(tick) > idle_time)
    /\ (Quiet(tick) /\ Elapsed(tick) <= idle_time) =>
           (NoCalls(tick) /\ idle_since = Some(IdleAnchor(tick)))
    /\ (tick.ran /\ tick.idle_before = None) => ~Suspended(tick)

\* a quiet tick at elapsed = idle_time exactly, idle_time > 0, with nothing
\* else in the way of a suspend
C3_Witness ==
    /\ Quiet(tick) /\ tick.idle_before # None
    /\ idle_time > 0 /\ Elapsed(tick) = idle_time
    /\ ~TooClose(tick)
    /\ idle_since = tick.idle_before

(* C4: over a run of consecutive ticks without just_woke_up, activity or   *)
(* suspend, _idle_since is the instant of the first tick of the run after  *)
(* every tick of the run; a tick never replaces a non-null _idle_since by  *)
(* another non-null value.                                                 *)
C4_AnchorsAtFirstAbsence ==
    /\ quiet_since # None => idle_since = quiet_since
    /\ (tick.ran /\ tick.idle_before # None /\ idle_since # None) =>
           idle_since = tick.idle_before

\* the third tick of such a run
C4_Witness ==
    /\ quiet_since # None
    /\ tick.timestamp >= Get(quiet_since) + 2 * interval
    /\ idle_since = quiet_since

(* C5: minimum-sleep guard.  On a quiet tick with elapsed > idle_time      *)
(* whose adjusted wake-up instant is closer than min_sleep_time, nothing   *)
(* is dispatched and _idle_since is what it was before the tick.           *)
C5_MinSleepGuard ==
    (Quiet(tick) /\ Elapsed(tick) > idle_time /\ TooClose(tick)) =>
        /\ NoCalls(tick)
        /\ idle_since # None
        /\ idle_since = tick.idle_before

\* a tick the guard alone blocked
C5_Witness ==
    /\ Quiet(tick) /\ Elapsed(tick) > idle_time /\ TooClose(tick)
    /\ Get(AdjustedWakeup(tick)) > tick.timestamp
    /\ idle_since = tick.idle_before

(* C6: on a quiet tick with elapsed > idle_time and an adjusted wake-up    *)
(* instant that is absent or at least min_sleep_time away, sleep_fn        *)
(* (notify-then-suspend) is called exactly once, wakeup_fn exactly once    *)
(* if and only if the wake-up instant is present, and _idle_since is None  *)
(* after the tick.                                                         *)
C6_SuspendDispatch ==
    (Quiet(tick) /\ Elapsed(tick) > idle_time /\ ~TooClose(tick)) =>
        /\ CallCount(tick, "sleep_fn") = 1
        /\ CallCount(tick, "wakeup_fn") =
               (IF AdjustedWakeup(tick) # None THEN 1 ELSE 0)
        /\ Len(tick.calls) =
               (IF AdjustedWakeup(tick) # None THEN 2 ELSE 1)
        /\ idle_since = None

\* a suspending tick whose wake-up instant is exactly min_sleep_time away
C6_Witness ==
    /\ Quiet(tick) /\ Elapsed(tick) > idle_time
    /\ AdjustedWakeup(tick) # None
    /\ min_sleep_time > 0
    /\ Get(AdjustedWakeup(tick)) - tick.timestamp = min_sleep_time
    /\ CallCount(tick, "sleep_fn") = 1 /\ CallCount(tick, "wakeup_fn") = 1

(* C9: whenever a tick calls wakeup_fn, the instant passed is the smallest *)
(* valid wake-probe instant minus wakeup_delta; that same instant is the   *)
(* one compared against min_sleep_time and the one passed to sleep_fn.     *)
C9_DeltaAdjustedWakeup ==
    \A i \in 1..Len(tick.calls) :
        /\ tick.calls[i].at = AdjustedWakeup(tick)
        /\ tick.calls[i].fn = "wakeup_fn" =>
              /\ EarliestValid(tick.wakeups, tick.timestamp) # None
              /\ Get(tick.calls[i].at) =
                     Get(EarliestValid(tick.wakeups, tick.timestamp))
                         - wakeup_delta
              /\ Get(tick.calls[i].at) - tick.timestamp >= min_sleep_time
              /\ CallCount(tick, "sleep_fn") = 1

\* a probe answering t + MaxWakeAhead with wakeup_delta = MaxDelta: wakeup_fn
\* receives t + MaxWakeAhead - MaxDelta
C9_Witness ==
    /\ wakeup_delta = MaxDelta
    /\ \E i \in 1..Len(tick.calls) :
          /\ tick.calls[i].fn = "wakeup_fn"
          /\ tick.calls[i].at =
                 Some(tick.timestamp + MaxWakeAhead - MaxDelta)

----------------------------------------------------------------------------
(* Properties of the aggregation functions and of the scenario.            *)

\* the i-th probe was invoked by the call
Invoked(t, i) == \E k \in 1..Len(t.invoked) : t.invoked[k] = i

\* ws with its elements reordered by the permutation p of its indices
Reordered(ws, p) == [i \in 1..Len(ws) |-> ws[p[i]]]

(* C7: execute_checks returns TRUE if and only if a probe it invoked       *)
(* returned a reason, which is the case if and only if any probe of the    *)
(* sequence answers with a reason; a failing probe does not make the       *)
(* result TRUE and the probe after it is still invoked; when every probe   *)
(* fails the result is FALSE.  For both values of all_checks.              *)
C7_ChecksAreOr ==
    tick.ran =>
        /\ tick.active =
              (\E i \in 1..Len(tick.checks) :
                   Invoked(tick, i) /\ tick.checks[i] = "reason")
        /\ tick.active = ReportsActive(tick)
        /\ \A i \in 1..Len(tick.checks) :
              (Invoked(tick, i) /\ tick.checks[i] = "error"
                  /\ i < Len(tick.checks)) => Invoked(tick, i + 1)
        /\ (tick.checks # <<>>) => Invoked(tick, 1)
        /\ (\A i \in 1..Len(tick.checks) : tick.checks[i] = "error") =>
               (~tick.active /\ Len(tick.invoked) = Len(tick.checks))

\* two failing probes followed by one that reports a reason
C7_Witness ==
    /\ tick.ran
    /\ tick.checks = <<"error", "error", "reason">>
    /\ tick.active
    /\ tick.invoked = <<1, 2, 3>>

(* C8: execute_wakeups returns the smallest returned instant strictly      *)
(* greater than the query instant, or None when there is none; instants at *)
(* or before the query instant, None answers and failing probes do not     *)
(* change the result; the result is the same for every order of the        *)
(* probes.                                                                 *)
C8_WakeupsAreMin ==
    tick.ran =>
        /\ tick.wakeup_raw = EarliestValid(tick.wakeups, tick.timestamp)
        /\ \A p \in Permutations(1..Len(tick.wakeups)) :
              execute_wakeups(Reordered(tick.wakeups, p), tick.timestamp)
                  = tick.wakeup_raw
        /\ execute_wakeups(
              SelectSeq(tick.wakeups,
                        LAMBDA w : /\ ~w.raises
                                   /\ w.value # None
                                   /\ Get(w.value) > tick.timestamp),
              tick.timestamp) = tick.wakeup_raw

\* the later of two future instants first, with an instant equal to the
\* query instant between them
C8_Witness ==
    /\ tick.ran
    /\ tick.wakeups = <<Return(Some(tick.timestamp + 2)),
                        Return(Some(tick.timestamp)),
                        Return(Some(tick.timestamp + 1))>>
    /\ tick.wakeup_raw = Some(tick.timestamp + 1)

\* the tick at which the scenario's idle time first exceeds idle_time
FirstSuspendTick == ScenarioActiveTicks + ScenarioIdleTime + 1

(* C10 as stated: in the scenario sleep_fn is called exactly once, at the  *)
(* tick FirstSuspendTick (21), at no other tick, and _idle_since is None   *)
(* after that tick.                                                        *)
C10_SuspendsExactlyOnce ==
    /\ Suspended(tick) => tick.timestamp = FirstSuspendTick
    /\ (tick.ran /\ tick.timestamp = FirstSuspendTick) =>
           (Suspended(tick) /\ idle_since = None)

(* C10 as amended: in the scenario the first call of sleep_fn is at the    *)
(* tick FirstSuspendTick (21), with _idle_since = ScenarioActiveTicks (10) *)
(* before and None after; it is the only one up to the tick                *)
(* FirstSuspendTick + ScenarioIdleTime + 1 (32); under the continued       *)
(* inactivity the next one follows at the tick after that (33).            *)
C10_FirstSuspend ==
    tick.ran =>
        /\ tick.timestamp < FirstSuspendTick =>
               (~Suspended(tick) /\ last_suspend = None)
        /\ tick.timestamp = FirstSuspendTick =>
               /\ tick.calls = <<[fn |-> "sleep_fn", at |-> None]>>
               /\ tick.idle_before = Some(ScenarioActiveTicks)
               /\ idle_since = None
        /\ (tick.timestamp > FirstSuspendTick
               /\ tick.timestamp <= FirstSuspendTick + ScenarioIdleTime + 1) =>
               (~Suspended(tick) /\ last_suspend = Some(FirstSuspendTick))
        /\ tick.timestamp = FirstSuspendTick + ScenarioIdleTime + 2 =>
               Suspended(tick)

\* the scenario's tick FirstSuspendTick has suspended
C10_Witness ==
    /\ tick.ran /\ tick.timestamp = FirstSuspendTick
    /\ Suspended(tick)
    /\ idle_since = None

----------------------------------------------------------------------------
(* Properties of the idle state and of the external commands.              *)

(* C11: after every tick _idle_since is non-null if and only if that tick  *)
(* had just_woke_up = FALSE, its probes reported no activity and it did    *)
(* not call sleep_fn; before the first tick _idle_since is None.           *)
C11_IdleStateInvariant ==
    /\ ~tick.ran => idle_since = None
    /\ tick.ran =>
          ((idle_since # None) = (Quiet(tick) /\ ~Suspended(tick)))

\* a quiet tick after an earlier suspend: _idle_since, null after the
\* suspend, is non-null again
C11_Witness ==
    /\ tick.ran /\ tick.prev_suspend # None
    /\ Quiet(tick) /\ ~Suspended(tick)
    /\ idle_since # None

\* the names of the commands a tick ran, in order
Names(t) == [i \in 1..Len(t.commands) |-> t.commands[i].cmd]

\* how many times the tick ran the command cmd
RunCount(t, cmd) ==
    Cardinality({i \in 1..Len(t.commands) : t.commands[i].cmd = cmd})

\* the place of a command in the order of a suspending tick
Rank(cmd) ==
    IF cmd = "wakeup_cmd" THEN 1
    ELSE IF cmd = "suspend_cmd" THEN 3
    ELSE 2

\* the names of the commands a suspending tick has to run, from what the
\* tick read and the configuration alone
ExpectedNames(t) ==
    (IF AdjustedWakeup(t) # None THEN <<"wakeup_cmd">> ELSE <<>>)
    \o (IF AdjustedWakeup(t) # None /\ notify_cmd_wakeup
        THEN <<"notify_cmd_wakeup">>
        ELSE IF AdjustedWakeup(t) = None /\ notify_cmd_no_wakeup
             THEN <<"notify_cmd_no_wakeup">>
             ELSE <<>>)
    \o <<"suspend_cmd">>

(* C12: the commands of a tick run in the order wake-scheduling,           *)
(* notification, suspend; the suspend command is the last one and runs     *)
(* once; a tick that runs any command runs the suspend command; a          *)
(* suspending tick with a wake-up instant runs the wake-scheduling command.*)
C12_CommandOrder ==
    LET n == Len(tick.commands) IN
    /\ n > 0 =>
          /\ tick.commands[n].cmd = "suspend_cmd"
          /\ RunCount(tick, "suspend_cmd") = 1
          /\ Suspended(tick)
    /\ \A i \in 1..n : \A j \in 1..n :
          i < j => Rank(tick.commands[i].cmd) < Rank(tick.commands[j].cmd)
    /\ (Suspended(tick) /\ AdjustedWakeup(tick) # None) =>
          (n > 0 /\ tick.commands[1].cmd = "wakeup_cmd")

\* a tick that ran all three kinds of command
C12_Witness ==
    Names(tick) = <<"wakeup_cmd", "notify_cmd_wakeup", "suspend_cmd">>

(* C13: a suspending tick runs the wake-up notification (with the wake-up  *)
(* instant) if and only if a wake-up instant is present and that template  *)
(* is configured, the no-wakeup notification if and only if no wake-up     *)
(* instant is present and that command is configured, no notification      *)
(* otherwise, and in every case the suspend command once, after it.        *)
C13_NotifySelection ==
    /\ RunCount(tick, "notify_cmd_wakeup") =
          (IF Suspended(tick) /\ AdjustedWakeup(tick) # None
                /\ notify_cmd_wakeup THEN 1 ELSE 0)
    /\ RunCount(tick, "notify_cmd_no_wakeup") =
          (IF Suspended(tick) /\ AdjustedWakeup(tick) = None
                /\ notify_cmd_no_wakeup THEN 1 ELSE 0)
    /\ \A i \in 1..Len(tick.commands) :
          tick.commands[i].cmd = "notify_cmd_wakeup" =>
              tick.commands[i].at = AdjustedWakeup(tick)
    /\ Suspended(tick) =>
          /\ RunCount(tick, "suspend_cmd") = 1
          /\ tick.commands[Len(tick.commands)].cmd = "suspend_cmd"

\* only the no-wakeup notification is configured and the tick suspends
\* with a wake-up instant: no notification runs
C13_Witness ==
    /\ ~notify_cmd_wakeup /\ notify_cmd_no_wakeup
    /\ Suspended(tick) /\ AdjustedWakeup(tick) # None
    /\ Names(tick) = <<"wakeup_cmd", "suspend_cmd">>

(* C14: on a suspending tick, whichever of its commands exit with a        *)
(* non-zero status, every command that applies is run, _idle_since is None *)
(* after the tick and the loop goes on to the next tick: the state is the  *)
(* one reached when every command succeeds.                                *)
C14_CommandFailureIgnored ==
    Suspended(tick) =>
        /\ Names(tick) = ExpectedNames(tick)
        /\ idle_since = None
        /\ quiet_since = None
        /\ last_suspend = Some(tick.timestamp)
        /\ pc = "while" /\ loop_continues
        /\ now = tick.timestamp + interval

\* all three commands of a suspending tick failed, and each was run
C14_Witness ==
    /\ Suspended(tick)
    /\ Len(tick.commands) = 3
    /\ \A i \in 1..3 : tick.commands[i].failed
    /\ idle_since = None /\ pc = "while"

C18_GuardRecovery ==
    [][ ( /\ Quiet(tick) /\ Elapsed(tick) > idle_time /\ TooClose(tick)
          /\ now' # now
          /\ Quiet(tick') /\ ~TooClose(tick') )
        => ( /\ Suspended(tick')
             /\ tick'.timestamp = now
             /\ tick'.idle_before = tick.idle_before
             /\ tick'.idle_before = idle_since
             /\ idle_since # None )
      ]_vars

\* a tick suspended although the tick before it was already idle for more
\* than idle_time: that tick was held back by the guard
C18_Witness ==
    /\ Suspended(tick)
    /\ tick.idle_before # None
    /\ Elapsed(tick) - interval > idle_time

(* C19: every instant w passed to wakeup_fn on a tick at t satisfies       *)
(* w - t >= min_sleep_time, and so w >= t as min_sleep_time >= 0; a tick   *)
(* whose adjusted wake-up instant lies before t calls nothing.             *)
C19_WakeupNotInPast ==
    /\ \A i \in 1..Len(tick.calls) :
          tick.calls[i].fn = "wakeup_fn" =>
              /\ Get(tick.calls[i].at) - tick.timestamp >= min_sleep_time
              /\ Get(tick.calls[i].at) >= tick.timestamp
    /\ (Quiet(tick) /\ AdjustedWakeup(tick) # None
           /\ Get(AdjustedWakeup(tick)) < tick.timestamp) => NoCalls(tick)

\* wakeup_fn was called with the instant of the tick itself: the probe
\* instant was exactly wakeup_delta ahead
C19_Witness ==
    /\ wakeup_delta > 0 /\ min_sleep_time = 0
    /\ \E i \in 1..Len(tick.calls) :
          /\ tick.calls[i].fn = "wakeup_fn"
          /\ tick.calls[i].at = Some(tick.timestamp)

(* C20: a tick that suspends is more than idle_time after the previous     *)
(* suspending tick, and the tick just before it did not suspend.           *)
C20_SuspendsApart ==
    [][ (now' # now /\ Suspended(tick')) =>
            /\ ~Suspended(tick)
            /\ last_suspend # None =>
                  /\ tick'.timestamp - Get(last_suspend) > idle_time
                  /\ tick'.timestamp - Get(last_suspend) >= 2 * interval
      ]_vars

\* a second suspend, two ticks after the first, with no marker seen
C20_Witness ==
    /\ Suspended(tick) /\ tick.prev_suspend # None
    /\ tick.timestamp - Get(tick.prev_suspend) = 2 * interval
    /\ ~woke_up_file

----------------------------------------------------------------------------
(* Properties of the loop's end and of the order of the activity probes.   *)

\* the instant start_time + run_for
Deadline == start_time + Get(run_for)

(* C16: with run_for given (and interval > 0) the loop returns; no tick    *)
(* starts at or after start_time + run_for, none at all when run_for = 0;  *)
(* the loop returns at an instant from start_time + run_for up to less     *)
(* than one interval later; without run_for the loop never returns.        *)
C16_BoundedRun ==
    /\ [](run_for # None =>
            /\ tick.ran => tick.timestamp < Deadline
            /\ run_for = Some(0) => ~tick.ran
            /\ pc = "done" => (Deadline <= now /\ now < Deadline + interval))
    /\ [](run_for = None => pc = "while")
    /\ [](run_for # None => <>(pc = "done"))

\* the loop returned after its last tick had started before the deadline
\* and the sleep ended after it
C16_Witness ==
    /\ pc = "done" /\ tick.ran
    /\ tick.timestamp < Deadline
    /\ now > Deadline

\* the indices 1..n in order
UpTo(n) == [i \in 1..n |-> i]

\* the index of the first probe of checks that returns a reason, or the
\* number of probes when none does
FirstReason(checks) ==
    IF \E i \in 1..Len(checks) : checks[i] = "reason"
    THEN CHOOSE i \in 1..Len(checks) :
             /\ checks[i] = "reason"
             /\ \A j \in 1..(i - 1) : checks[j] # "reason"
    ELSE Len(checks)

(* C17: with all_activities = FALSE a tick invokes, once each and in       *)
(* order, the probes up to the first one that returns a reason and none    *)
(* after it; with all_activities = TRUE it invokes every probe once.  For  *)
(* either value of the flag and every order of the same probe answers      *)
(* execute_checks returns the same boolean, and the tick leaves the same   *)
(* _idle_since and makes the same calls.                                   *)
C17_ShortCircuit ==
    tick.ran =>
        /\ tick.invoked =
              (IF all_activities THEN UpTo(Len(tick.checks))
               ELSE UpTo(FirstReason(tick.checks)))
        /\ \A flag \in BOOLEAN :
           \A p \in Permutations(1..Len(tick.checks)) :
              LET r == execute_checks(Reordered(tick.checks, p), flag) IN
              /\ r.matched = tick.active
              /\ decide(tick.idle_before, tick.timestamp, tick.just_woke_up,
                        r.matched, tick.wakeup_at)
                     = [idle_since |-> idle_since, calls |-> tick.calls]

\* without all_activities, the probe after the first reason was not
\* invoked, the failing probe before it was
C17_Witness ==
    /\ tick.ran /\ ~all_activities
    /\ tick.checks = <<"error", "reason", "reason">>
    /\ tick.invoked = <<1, 2>>
    /\ tick.active /\ idle_since = None

----------------------------------------------------------------------------
(* Progress towards suspension.                                            *)

\* a tick without marker file, without a probe reporting a reason, and
\* with the adjusted wake-up instant absent or min_sleep_time away
Undisturbed(t) == Quiet(t) /\ ~TooClose(t)

\* every probe of the tick raised TemporaryCheckError
AllProbesFailed(t) ==
    /\ t.checks # <<>> /\ t.wakeups # <<>>
    /\ \A i \in 1..Len(t.checks) : t.checks[i] = "error"
    /\ \A i \in 1..Len(t.wakeups) : t.wakeups[i].raises

\* after the tick at t0 the clock leaves room for the ticks up to
\* idle_time later and the one after them
RoomAfter(t0) == t0 + idle_time + interval <= MaxTime

(* C21: in unbounded mode, every pass completing, an undisturbed tick     *)
(* that did not suspend is followed by a tick that suspends or is          *)
(* disturbed (marker found, a probe reporting a reason, or the wake-up     *)
(* closer than min_sleep_time): when no later tick is disturbed, a         *)
(* suspend is dispatched.  A tick whose                                    *)
(* probes fail is undisturbed, and an undisturbed tick with                *)
(* elapsed > idle_time suspends at once, so failures do not delay it.      *)
C21_EventuallySuspends ==
    /\ [](AllProbesFailed(tick) /\ tick.ran /\ ~tick.just_woke_up
             => Undisturbed(tick))
    /\ []((Undisturbed(tick) /\ Elapsed(tick) > idle_time)
             => Suspended(tick))
    /\ (Undisturbed(tick) /\ ~Suspended(tick)
           /\ RoomAfter(tick.timestamp))
          ~> (Suspended(tick) \/ ~Undisturbed(tick))

\* a suspend on a tick whose probes all failed, after an idle period that
\* began on an earlier tick
C21_Witness ==
    /\ Suspended(tick)
    /\ AllProbesFailed(tick)
    /\ tick.idle_before # None
    /\ idle_time > 0
    /\ tick.prev_suspend = None

=============================================================================
